---------------------------- MODULE Spec2Model ----------------------------
(***************************************************************************)
(* Model of scripts/svd.py: per-channel truncated SVD compression of an    *)
(* RGB image (compress_image_using_svd and its helpers), specification     *)
(* Spec; and of scripts/compress.py: the sweep of compress_images over     *)
(* parameter values and a batch of images, specification SweepSpec.        *)
(*                                                                         *)
(* Numbers.  Singular values are integer-valued floats; their squares and  *)
(* the sum of the squares are integers far below 2^53, which float64       *)
(* represents exactly.  The quotients sigma^2 / total and the running sums *)
(* of np.cumsum are rounded: they are modelled as binary floating point    *)
(* numbers with FloatBits significant bits, round to nearest, ties to      *)
(* even, held as integers in units of 1/Scale.  NaN is a value of its own, *)
(* and every comparison with it is false.                                  *)
(*                                                                         *)
(* Pixels of the real-valued reconstruction are held in units of 1/Unit.   *)
(***************************************************************************)
EXTENDS Integers, Sequences, FiniteSets, TLC

\* Significant bits of the modelled floating point format (53 in float64).
FloatBits == 4

\* One is Scale units: no modelled quotient is below 2^-12.
Scale == 2 ^ (FloatBits + 12)

\* A value no arithmetic result takes: the float NaN.
NaN == 0 - 1

\* One pixel level is Unit units; 18 is a common multiple of the squared
\* column norms of the modelled factors, 16 leaves room for rounding error.
Unit == 18 * 16

-----------------------------------------------------------------------------
(* Floating point *)

RoundHalfEven(num, den) ==
    LET q == num \div den
        r == num % den
    IN  IF 2 * r > den \/ (2 * r = den /\ q % 2 = 1) THEN q + 1 ELSE q

RECURSIVE Shift(_, _, _)
\* The s >= 0 with 2^-s <= n/d < 2^(1-s), for 0 < n <= d.
Shift(n, d, s) == IF n * (2 ^ s) >= d THEN s ELSE Shift(n, d, s + 1)

RECURSIVE Log2Floor(_)
Log2Floor(x) == IF x < 2 THEN 0 ELSE 1 + Log2Floor(x \div 2)

\* The float nearest to n/d (0 <= n <= d), in units of 1/Scale; 0/0 is NaN.
FlDiv(n, d) ==
    IF d = 0 THEN NaN
    ELSE IF n = 0 THEN 0
    ELSE LET s == Shift(n, d, 0)
             m == RoundHalfEven(n * (2 ^ (s + FloatBits - 1)), d)
         IN  m * (Scale \div (2 ^ (s + FloatBits - 1)))

\* The float nearest to a + b.
FlAdd(a, b) ==
    IF a = NaN \/ b = NaN THEN NaN
    ELSE LET x == a + b
             h == Log2Floor(x)
         IN  IF x = 0 \/ h < FloatBits THEN x
             ELSE LET ulp == 2 ^ (h - FloatBits + 1)
                  IN  RoundHalfEven(x, ulp) * ulp

\* a >= b on floats.
FlGeq(a, b) == a # NaN /\ b # NaN /\ a >= b


-----------------------------------------------------------------------------
(* numpy and Python primitives *)

RECURSIVE SumSeq(_)
SumSeq(s) == IF s = <<>> THEN 0 ELSE s[1] + SumSeq(Tail(s))

MinOf(S) == CHOOSE x \in S : \A y \in S : x <= y
MaxOf(S) == CHOOSE x \in S : \A y \in S : x >= y

\* The stop index of the slice [:k] of a sequence of length n.
SliceStop(k, n) ==
    IF k < 0 THEN (IF k + n < 0 THEN 0 ELSE k + n)
    ELSE IF k > n THEN n ELSE k

\* Whether seq[idx] (0-based, negative from the end) is inside the sequence.
IndexInRange(idx, n) == idx < n /\ idx >= 0 - n

\* seq[idx] (0-based, negative from the end), for an index in range.
PyIndex(seq, idx) ==
    IF idx >= 0 THEN seq[idx + 1] ELSE seq[Len(seq) + idx + 1]

\* Python truthiness of the argument k_components: <<>> is None.
Truthy(kc) == kc # <<>> /\ kc[1] # 0

\* ArgMaxGeq taking the last True instead of the first.
ArgMaxGeqLast(cum, ev) ==
    LET hits == {i \in 1..Len(cum) : FlGeq(cum[i], ev)}
    IN  IF hits = {} THEN 0 ELSE MaxOf(hits) - 1

\* ArgMaxGeq giving the last index, not 0, when no entry is True.
ArgMaxGeqOrLast(cum, ev) ==
    LET hits == {i \in 1..Len(cum) : FlGeq(cum[i], ev)}
    IN  IF hits = {} THEN Len(cum) - 1 ELSE MinOf(hits) - 1

\* np.argmax(cumulative_variance >= explained_variance): the 0-based index of
\* the first True, and 0 when no entry is True.
ArgMaxGeq(cum, ev) ==
    LET hits == {i \in 1..Len(cum) : FlGeq(cum[i], ev)}
    IN  IF hits = {} THEN 0 ELSE MinOf(hits) - 1

-----------------------------------------------------------------------------
(* scripts/svd.py helpers *)

\* sigma_aux = zeros_like(sigma); sigma_aux[:k] = sigma[:k]
GetTopKSingularValues(sigma, k) ==
    [i \in 1..Len(sigma) |->
        IF i <= SliceStop(k, Len(sigma)) THEN sigma[i] ELSE 0]

\* CumSum yielding each share instead of the running sum.
CumSumShare(shares, n) == shares[n]

RECURSIVE CumSum(_, _)
\* np.cumsum: the running float sums of shares[1..n].
CumSum(shares, n) ==
    IF n = 1 THEN shares[1]
    ELSE FlAdd(CumSum(shares, n - 1), shares[n])

GetExplainedVariance(sigma) ==
    LET squares == [i \in 1..Len(sigma) |-> sigma[i] * sigma[i]]
        total_variance == SumSeq(squares)
        variance_explained ==
            [i \in 1..Len(sigma) |-> FlDiv(squares[i], total_variance)]
    IN  [i \in 1..Len(sigma) |-> CumSum(variance_explained, i)]

\* The sign of the rounding error np.dot leaves at pixel (a, b) under error
\* pattern e (0: none).
ErrAt(e, a, b) == e * (IF (a + b) % 2 = 0 THEN 1 ELSE 0 - 1)

\* np.dot(u, np.dot(np.diag(sigma), vt)), without rounding, in units of
\* 1/Unit.  Column i of u and row i of vt are d.u and d.vt scaled by
\* 1/sqrt(d.norm[i]).
DotExact(d, sigma) ==
    [a \in 1..Len(d.u) |-> [b \in 1..Len(d.vt[1]) |->
        SumSeq([i \in 1..Len(sigma) |->
            d.u[a][i] * sigma[i] * d.vt[i][b] * (Unit \div d.norm[i])])]]

\* A pixel whose products involve a factor float64 does not represent
\* exactly carries rounding error.
Inexact(d, sigma, a, b) ==
    \E i \in 1..Len(sigma) :
        d.norm[i] # 1 /\ d.u[a][i] * sigma[i] * d.vt[i][b] # 0

\* reconstructed_img of _reconstruct_channel as np.dot computes it.
DotRounded(d, sigma, e) ==
    LET exact == DotExact(d, sigma)
    IN  [a \in 1..Len(d.u) |-> [b \in 1..Len(d.vt[1]) |->
            exact[a][b] + (IF Inexact(d, sigma, a, b) THEN ErrAt(e, a, b) ELSE 0)]]

Entries(m) == {m[a][b] : a \in 1..Len(m), b \in 1..Len(m[1])}

\* ScaleMinMax scaling by 256 instead of 255.
ScaleMinMax256(img) ==
    LET min_val == MinOf(Entries(img))
        max_val == MaxOf(Entries(img))
    IN  [a \in 1..Len(img) |-> [b \in 1..Len(img[1]) |->
            [num |-> (img[a][b] - min_val) * 256, den |-> max_val - min_val]]]

\* scaled_img: each entry the quotient num/den; 0/0 is the float NaN.
ScaleMinMax(img) ==
    LET min_val == MinOf(Entries(img))
        max_val == MaxOf(Entries(img))
    IN  [a \in 1..Len(img) |-> [b \in 1..Len(img[1]) |->
            [num |-> (img[a][b] - min_val) * 255, den |-> max_val - min_val]]]

IsNaN(q) == q.den = 0

\* AsUint8 casting to the signed 8-bit type instead.
AsInt8(q, nanv) ==
    IF IsNaN(q) THEN nanv ELSE (((q.num \div q.den) + 128) % 256) - 128

\* astype(np.uint8) of one float: truncation toward zero, modulo 2^8; the cast
\* of NaN is undefined and yields nanv.
AsUint8(q, nanv) ==
    IF IsNaN(q) THEN nanv ELSE (q.num \div q.den) % 256

ReconstructChannel(d, sigma, e, nanv) ==
    LET scaled_img == ScaleMinMax(DotRounded(d, sigma, e))
    IN  [a \in 1..Len(scaled_img) |-> [b \in 1..Len(scaled_img[1]) |->
            AsUint8(scaled_img[a][b], nanv)]]

-----------------------------------------------------------------------------
(* np.linalg.svd on the modelled channels: a table of exact reduced        *)
(* decompositions.  Every entry has orthonormal factors and non-negative,  *)
(* non-increasing singular values, and its product is a matrix of 8-bit    *)
(* intensities.                                                             *)

Identity3 == << <<1, 0, 0>>, <<0, 1, 0>>, <<0, 0, 1>> >>

\* Orthogonal and symmetric: each column has squared norm 9.
Reflect3 == << <<1, 2, 2>>, <<2, 1, 0 - 2>>, <<2, 0 - 2, 1>> >>

\* Columns (1,1,1), (1,-1,0), (1,1,-2) of squared norms 3, 2, 6.
Ones3U == << <<1, 1, 1>>, <<1, 0 - 1, 1>>, <<1, 0, 0 - 2>> >>
Ones3Vt == << <<1, 1, 1>>, <<1, 0 - 1, 0>>, <<1, 1, 0 - 2>> >>

Decomp(u, sigma, vt, norm) == [u |-> u, sigma |-> sigma, vt |-> vt, norm |-> norm]

Decompositions ==
    { Decomp(Identity3, <<255, 144, 84>>, Identity3, <<1, 1, 1>>),
      Decomp(Identity3, <<0, 0, 0>>, Identity3, <<1, 1, 1>>),
      Decomp(Reflect3, <<315, 225, 135>>, Reflect3, <<9, 9, 9>>),
      Decomp(Reflect3, <<45, 36, 27>>, Reflect3, <<9, 9, 9>>),
      Decomp(Ones3U, <<255, 0, 0>>, Ones3Vt, <<3, 2, 6>>) }

\* The channel a decomposition is the SVD of: u . diag(sigma) . vt.
ChannelOf(d) ==
    LET m == DotExact(d, d.sigma)
    IN  [a \in 1..Len(m) |-> [b \in 1..Len(m[1]) |-> m[a][b] \div Unit]]

Channels == {ChannelOf(d) : d \in Decompositions}

\* np.linalg.svd(channel, full_matrices=False)
LinalgSvd(channel) == CHOOSE d \in Decompositions : ChannelOf(d) = channel

\* _compute_svd: the decomposition of each channel; channels 1, 2, 3 are
\* red, green, blue.
ComputeSvd(img) == [c \in 1..3 |-> LinalgSvd(img[c])]

-----------------------------------------------------------------------------
(* Inputs *)

\* explained_variance values: 0.5, 0.75, 0.875 and 1.0, floats of at most
\* three significant bits.
Thresholds == {Scale \div 2, (3 * Scale) \div 4, (7 * Scale) \div 8, Scale}

\* k_components values: None (<<>>), and requests below, inside and above
\* the range 1..3 of a 3 x 3 channel.
MaxKRequest == 4
KRequests == {<<>>} \cup {<<k>> : k \in (0 - 1)..MaxKRequest}

\* Rounding-error patterns of one np.dot call: none, or one unit up and down
\* on alternating pixels.
DotErrors == {0, 1}

\* Values the undefined cast of NaN to uint8 yields.
NaNCasts == {0, 255}

-----------------------------------------------------------------------------
(* compress_image_using_svd *)

VARIABLES
    image,                  \* argument: the channels red, green, blue
    explained_variance,     \* argument
    k_arg,                  \* argument k_components as passed (<<>>: None)
    pc,                     \* "idle", "call", "loop", "done", "raised"
    k_given,                \* local
    k_components,           \* local, reassigned in the loop (<<>>: None)
    svd,                    \* local
    color,                  \* loop position: index into Colors
    reconstructed_channels, \* local
    metadata,               \* local: one entry per processed channel
    sigma_top_ks,           \* the sigma_top_k of each processed channel
    scaled_imgs,            \* the scaled_img of each processed channel
    result                  \* the returned pair, <<>> before the return

vars == <<image, explained_variance, k_arg, pc, k_given, k_components, svd,
          color, reconstructed_channels, metadata, sigma_top_ks, scaled_imgs,
          result>>

\* The state of compress_images (scripts/compress.py).
VARIABLES
    images,                 \* argument: the batch
    image_names,            \* argument: one file name per image
    method,                 \* argument
    param_set,              \* argument: the parameter values, in order
    num_images,             \* argument, reassigned at line 66 (<<>>: None)
    sweep_pc,               \* "idle", "call", "outer", "inner", "done", "raised"
    data,                   \* local dict: its items, in insertion order
    param_at,               \* position of the outer loop in param_set
    image_at,               \* position of the inner loop in the zipped batch
    img_names_list,         \* local
    compressed_imgs,        \* local
    metrics_df,             \* local: the rows of the data frame
    sweep_result,           \* what the call returned, <<>> before the return
    attempted,              \* the (parameter, image) positions processed so far
    failed                  \* the positions whose processing raised

sweep_vars == <<images, image_names, method, param_set, num_images, sweep_pc,
                data, param_at, image_at, img_names_list, compressed_imgs,
                metrics_df, sweep_result, attempted, failed>>

\* No call of compress_images is in progress.
SweepIdle ==
    /\ images = <<>>
    /\ image_names = <<>>
    /\ method = "svd"
    /\ param_set = <<>>
    /\ num_images = <<>>
    /\ sweep_pc = "idle"
    /\ data = <<>>
    /\ param_at = 0
    /\ image_at = 0
    /\ img_names_list = <<>>
    /\ compressed_imgs = <<>>
    /\ metrics_df = <<>>
    /\ sweep_result = <<>>
    /\ attempted = <<>>
    /\ failed = <<>>

Init ==
    /\ SweepIdle
    /\ image \in [1..3 -> Channels]
    /\ explained_variance \in Thresholds
    /\ k_arg \in KRequests
    /\ pc = "call"
    /\ k_given = FALSE
    /\ k_components = k_arg
    /\ svd = <<>>
    /\ color = 0
    /\ reconstructed_channels = <<>>
    /\ metadata = [variance_explained |-> <<>>, num_components |-> <<>>]
    /\ sigma_top_ks = <<>>
    /\ scaled_imgs = <<>>
    /\ result = <<>>

\* Lines 197-209: the flag, the decompositions, the empty accumulators.
Enter ==
    /\ pc = "call"
    /\ k_given' = Truthy(k_components)
    /\ svd' = ComputeSvd(image)
    /\ color' = 1
    /\ pc' = "loop"
    /\ UNCHANGED <<image, explained_variance, k_arg, k_components,
                   reconstructed_channels, metadata, sigma_top_ks, scaled_imgs,
                   result>>
    /\ UNCHANGED sweep_vars

\* SelectK without the + 1 that turns the 0-based index into a count.
SelectKIndex(cumulative_variance, ev, given, kc) ==
    IF ~given THEN ArgMaxGeq(cumulative_variance, ev) ELSE kc[1]

\* SelectK testing "k_components is None" instead of the flag k_given: the k
\* computed for one channel is then carried to the next.
SelectKCarried(cumulative_variance, ev, given, kc) ==
    IF kc = <<>> THEN ArgMaxGeq(cumulative_variance, ev) + 1 ELSE kc[1]

\* The k_components of lines 215-216 for one channel.
SelectK(cumulative_variance, ev, given, kc) ==
    IF ~given THEN ArgMaxGeq(cumulative_variance, ev) + 1 ELSE kc[1]

\* Lines 211-225: one iteration of the loop over the channels.  The read
\* cumulative_variance[k_components - 1] raises IndexError out of range.
ProcessChannel(e, nanv) ==
    /\ pc = "loop"
    /\ color <= 3
    /\ LET d == svd[color]
           cumulative_variance == GetExplainedVariance(d.sigma)
           k == SelectK(cumulative_variance, explained_variance, k_given,
                        k_components)
           sigma_top_k == GetTopKSingularValues(d.sigma, k)
           scaled == ScaleMinMax(DotRounded(d, sigma_top_k, e))
           channel == ReconstructChannel(d, sigma_top_k, e, nanv)
       IN  /\ k_components' = <<k>>
           /\ sigma_top_ks' = Append(sigma_top_ks, sigma_top_k)
           /\ scaled_imgs' = Append(scaled_imgs, scaled)
           /\ reconstructed_channels' = Append(reconstructed_channels, channel)
           /\ IF IndexInRange(k - 1, Len(cumulative_variance))
              THEN /\ metadata' =
                        [variance_explained |->
                            Append(metadata.variance_explained,
                                   PyIndex(cumulative_variance, k - 1)),
                         num_components |-> Append(metadata.num_components, k)]
                   /\ color' = color + 1
                   /\ pc' = "loop"
              ELSE /\ pc' = "raised"
                   /\ UNCHANGED <<metadata, color>>
    /\ UNCHANGED <<image, explained_variance, k_arg, k_given, svd, result>>
    /\ UNCHANGED sweep_vars

\* Line 227: np.stack of the three channels, and the metadata.
Return ==
    /\ pc = "loop"
    /\ color = 4
    /\ result' = <<reconstructed_channels, metadata>>
    /\ pc' = "done"
    /\ UNCHANGED <<image, explained_variance, k_arg, k_given, k_components,
                   svd, color, reconstructed_channels, metadata, sigma_top_ks,
                   scaled_imgs>>
    /\ UNCHANGED sweep_vars

Next ==
    \/ Enter
    \/ \E e \in DotErrors, nanv \in NaNCasts : ProcessChannel(e, nanv)
    \/ Return

Spec == Init /\ [][Next]_<<vars, sweep_vars>>

-----------------------------------------------------------------------------
(* State functions used by the properties *)

\* The channels whose loop iteration has completed.
Processed == 1..Len(metadata.num_components)

Sigma(c) == svd[c].sigma
Rank(c) == Len(Sigma(c))
CumulativeVariance(c) == GetExplainedVariance(Sigma(c))
NumComponents(c) == metadata.num_components[c]
VarianceExplained(c) == metadata.variance_explained[c]

TotalVariance(c) == SumSeq([i \in 1..Rank(c) |-> Sigma(c)[i] * Sigma(c)[i]])

\* The threshold policy is active: k_components was not passed.
ThresholdPolicy == k_arg = <<>>

\* Some entry of the cumulative variance of channel c reaches t.
Reachable(c, t) == \E i \in 1..Rank(c) : FlGeq(CumulativeVariance(c)[i], t)

Abs(x) == IF x < 0 THEN 0 - x ELSE x

-----------------------------------------------------------------------------
(* C1 *)

-----------------------------------------------------------------------------
(* C2 *)

Clamp(k, r) == IF k < 1 THEN 1 ELSE IF k > r THEN r ELSE k

\* C2 as stated: a fixed-rank request outside [1, r] is clamped into [1, r]
\* and not rejected: the call returns normally and every channel keeps and
\* reports what the clamped request would.
C2_OutOfRangeClamped ==
    (/\ pc \in {"done", "raised"}
     /\ k_arg # <<>>
     /\ k_arg[1] \notin 1..Rank(1))
    => /\ pc = "done"
       /\ \A c \in 1..3 :
              /\ NumComponents(c) = Clamp(k_arg[1], Rank(c))
              /\ sigma_top_ks[c] =
                     GetTopKSingularValues(Sigma(c), Clamp(k_arg[1], Rank(c)))
              /\ VarianceExplained(c) =
                     CumulativeVariance(c)[Clamp(k_arg[1], Rank(c))]

-----------------------------------------------------------------------------
(* C3 *)

\* C3 as stated: in every returned metadata each channel has num_components
\* in [1, rank] and variance_explained a number in [0, 1], never NaN.
C3_MetadataInRange ==
    pc = "done" =>
        \A c \in 1..3 :
            /\ result[2].num_components[c] \in 1..Rank(c)
            /\ result[2].variance_explained[c] # NaN
            /\ result[2].variance_explained[c] >= 0
            /\ result[2].variance_explained[c] <= Scale

-----------------------------------------------------------------------------
(* C4 *)

\* C4 as stated: the returned metadata reports, per channel, num_components
\* equal to the number of leading singular values kept in the truncated
\* spectrum and variance_explained equal to
\* cumulative_variance[num_components - 1]; with a fixed rank of 1 that is
\* num_components = 1 and sigma_1^2 / sum_j sigma_j^2.  (Read on the channels
\* of nonzero variance.)
C4_MetadataMatchesTruncation ==
    pc = "done" =>
        \A c \in 1..3 :
            TotalVariance(c) # 0 =>
            /\ result[2].num_components[c] \in 0..Rank(c)
            /\ sigma_top_ks[c] =
                   [i \in 1..Rank(c) |->
                       IF i <= result[2].num_components[c]
                       THEN Sigma(c)[i] ELSE 0]
            /\ result[2].variance_explained[c] =
                   PyIndex(CumulativeVariance(c),
                           result[2].num_components[c] - 1)
            /\ k_arg = <<1>> =>
                   /\ result[2].num_components[c] = 1
                   /\ result[2].variance_explained[c] =
                          FlDiv(Sigma(c)[1] * Sigma(c)[1],
                                SumSeq([i \in 1..Rank(c) |->
                                           Sigma(c)[i] * Sigma(c)[i]]))

-----------------------------------------------------------------------------
(* C5 *)

\* C5: every value of every channel _reconstruct_channel returns, and so
\* every pixel of the compressed image, is an integer in [0, 255].
C5_PixelsInRange ==
    /\ \A c \in 1..Len(reconstructed_channels) :
           \A v \in Entries(reconstructed_channels[c]) : v \in 0..255
    /\ pc = "done" =>
           \A c \in 1..3 : \A v \in Entries(result[1][c]) : v \in 0..255

\* A returned image with a channel that holds 0, 255 and values in between.
C5_Witness ==
    /\ pc = "done"
    /\ \E c \in 1..3 :
           /\ {0, 255} \subseteq Entries(result[1][c])
           /\ \E v \in Entries(result[1][c]) : v > 127 /\ v < 255

-----------------------------------------------------------------------------
(* C6 *)

\* The truncated reconstruction of processed channel c is flat: max = min.
FlatReconstruction(c) ==
    \A a \in 1..Len(scaled_imgs[c]), b \in 1..Len(scaled_imgs[c][1]) :
        scaled_imgs[c][a][b].den = 0

\* C6 as stated: when the truncated reconstruction of a channel has max equal
\* to min, the scaling does not divide by zero or produce NaN, and the channel
\* returned is a constant fixed by the input.
C6_FlatChannelDefined ==
    \A c \in 1..Len(scaled_imgs) :
        FlatReconstruction(c) =>
            /\ \A a \in 1..Len(scaled_imgs[c]), b \in 1..Len(scaled_imgs[c][1]) :
                   ~IsNaN(scaled_imgs[c][a][b])
            /\ \A nanv \in NaNCasts :
                   reconstructed_channels[c] =
                       ReconstructChannel(svd[c], sigma_top_ks[c], 0, nanv)

-----------------------------------------------------------------------------
(* C7 *)

\* Every pixel of the returned channel c is within 1 of the input channel.
WithinOne(c) ==
    \A a \in 1..Len(image[c]), b \in 1..Len(image[c][1]) :
        Abs(result[1][c][a][b] - image[c][a][b]) <= 1

\* C7 as stated: a channel compressed with all r = min(height, width)
\* components retained is reproduced within +/-1 at every pixel.  (Read on
\* the channels that are not flat.)
C7_FullRankRoundTrip ==
    pc = "done" =>
        \A c \in 1..3 :
            (/\ NumComponents(c) = Rank(c)
             /\ MinOf(Entries(image[c])) < MaxOf(Entries(image[c])))
            => WithinOne(c)

\* C7 amended: a channel whose intensities span the whole range (minimum 0,
\* maximum 255), compressed with all r components retained, is reproduced
\* within +/-1 at every pixel.
C7_FullRankRoundTripFullRange ==
    pc = "done" =>
        \A c \in 1..3 :
            (/\ NumComponents(c) = Rank(c)
             /\ MinOf(Entries(image[c])) = 0
             /\ MaxOf(Entries(image[c])) = 255)
            => WithinOne(c)

\* A returned full-range channel with all components retained in which a
\* pixel is reproduced one level below the input.
C7_Witness ==
    /\ pc = "done"
    /\ \E c \in 1..3 :
           /\ NumComponents(c) = Rank(c)
           /\ MinOf(Entries(image[c])) = 0
           /\ MaxOf(Entries(image[c])) = 255
           /\ \E a \in 1..Len(image[c]), b \in 1..Len(image[c][1]) :
                  result[1][c][a][b] = image[c][a][b] - 1

-----------------------------------------------------------------------------
(* C8 *)

-----------------------------------------------------------------------------
(* C9 *)

\* C9 as stated: for a fixed sigma the k selected under the threshold policy
\* is non-decreasing in the threshold.
C9_MonotoneInThreshold ==
    ThresholdPolicy =>
        \A c \in Processed : \A t \in Thresholds :
            /\ t <= explained_variance =>
                   SelectK(CumulativeVariance(c), t, FALSE, <<>>)
                       <= NumComponents(c)
            /\ t >= explained_variance =>
                   SelectK(CumulativeVariance(c), t, FALSE, <<>>)
                       >= NumComponents(c)

-----------------------------------------------------------------------------
(* C10 *)

\* C10 as stated: whenever k_components is provided, explained_variance is
\* ignored (every threshold gives the same selection) and every channel has
\* its component count fixed to k_components.  (Read on the channels of
\* nonzero variance.)
C10_ProvidedKOverrides ==
    (pc = "done" /\ k_arg # <<>>) =>
        \A c \in 1..3 :
            TotalVariance(c) # 0 =>
            /\ NumComponents(c) = k_arg[1]
            /\ \A t \in Thresholds :
                   SelectK(CumulativeVariance(c), t, k_given, k_arg)
                       = NumComponents(c)

-----------------------------------------------------------------------------
(* C11 *)

\* np.linalg.svd tabulated over the modelled channels.
SvdOf == [channel \in Channels |-> LinalgSvd(channel)]

\* What input channel `channel` and the policy arguments alone determine: the
\* decomposition, the rank kept, the truncated spectrum and the variance
\* reported.
ChannelAlone(channel, ev, kc) ==
    LET d == SvdOf[channel]
        cumulative_variance == GetExplainedVariance(d.sigma)
        k == SelectK(cumulative_variance, ev, Truthy(kc), kc)
    IN  [d |-> d,
         num_components |-> k,
         sigma_top_k |-> GetTopKSingularValues(d.sigma, k),
         variance_explained |->
             IF IndexInRange(k - 1, Len(cumulative_variance))
             THEN PyIndex(cumulative_variance, k - 1) ELSE NaN]

\* C11: the output channel at position c and the metadata of channel c are
\* what input channel c and the policy arguments alone determine, whatever the
\* other input channels hold, under the threshold and the fixed-rank policy;
\* the output channels keep the positions and the height x width of the input.
C11_NoCrossChannelCoupling ==
    /\ \A c \in Processed :
           LET alone == ChannelAlone(image[c], explained_variance, k_arg)
           IN  /\ NumComponents(c) = alone.num_components
               /\ VarianceExplained(c) = alone.variance_explained
               /\ sigma_top_ks[c] = alone.sigma_top_k
    /\ pc = "done" =>
           /\ Len(result[1]) = 3
           /\ result[2] = metadata
           /\ \A c \in 1..3 :
                  LET alone == ChannelAlone(image[c], explained_variance, k_arg)
                  IN  /\ \E e \in DotErrors, nanv \in NaNCasts :
                             result[1][c] =
                                 ReconstructChannel(alone.d, alone.sigma_top_k,
                                                    e, nanv)
                      /\ Len(result[1][c]) = Len(image[c])
                      /\ Len(result[1][c][1]) = Len(image[c][1])

\* A returned call under the threshold policy on an image whose red and
\* green channels differ and keep different numbers of components.
C11_Witness ==
    /\ pc = "done"
    /\ ThresholdPolicy
    /\ image[1] # image[2]
    /\ NumComponents(1) = 3
    /\ NumComponents(2) = 1
    /\ result[1][1] # result[1][2]

-----------------------------------------------------------------------------
(* scripts/compress.py: compress_images *)

\* The most images and the most parameter values of one call.
MaxImages == 2
MaxParams == 2

\* The images of a batch: every channel diag(255, 144, 84), reconstructed
\* without rounding error, or every channel [[33, 6, 0], [6, 36, 6],
\* [0, 6, 39]], reconstructed with it.
SweepImages ==
    { [c \in 1..3 |-> ChannelOf(d)] :
        d \in { Decomp(Identity3, <<255, 144, 84>>, Identity3, <<1, 1, 1>>),
                Decomp(Reflect3, <<45, 36, 27>>, Reflect3, <<9, 9, 9>>) } }

\* Parameter values: 0.5 and 1.0.
SweepParams == {Scale \div 2, Scale}

\* "jp2", "svd", and a method that is neither.
Methods == {"jp2", "svd", "png"}

\* num_images: None (<<>>), 0, 1.
NumImagesArgs == {<<>>, <<0>>, <<1>>}

\* All sequences over S of length at most n.
SeqUpTo(S, n) == UNION {[1..m -> S] : m \in 0..n}

\* The file name of the image at position i of a batch: a stem and the
\* four-character extension.
NameAt(i) == <<i, ".png">>

\* img_name[:-4]: the name without its last four characters.
Stem(img_name) == img_name[1]

\* The name of the compressed file, lines 82 and 87.
CompressedName(img_name, meth, param) ==
    IF meth = "svd" THEN <<Stem(img_name), "_expvar", param, ".png">>
    ELSE <<Stem(img_name), "_cratio", param, ".jp2">>

\* compress_image_using_svd(original_img, explained_variance=param): the
\* stacked channels; e is the rounding pattern of the call's np.dot, nanv its
\* NaN cast.
CompressImageUsingSvd(img, param, e, nanv) ==
    [c \in 1..3 |->
        LET alone == ChannelAlone(img[c], param, <<>>)
        IN  ReconstructChannel(alone.d, alone.sigma_top_k, e, nanv)]

\* glymur.Jp2k(path, img, cratios=[param]) read back: the codec is a black
\* box, its output known by what it was made from.
CompressJp2(img, param) == [jp2 |-> img, cratio |-> param]

\* calculate_metrics(original_image_path, compressed_image_path): a record
\* of the two files compared.
CalculateMetrics(img_name, name) ==
    [original_image_path |-> img_name, compressed_image_path |-> name]

\* zip(images[:num_images], image_names[:num_images]): its length.
NumPairs ==
    LET n == num_images[1]
        a == SliceStop(n, Len(images))
        b == SliceStop(n, Len(image_names))
    IN  IF a < b THEN a ELSE b

\* DictSet replacing the whole dict by the new item.
DictSetOnly(items, key, value) == <<[key |-> key, value |-> value]>>

\* data[key] = value on the items of a dict: an existing key keeps its
\* position and takes the new value, a new key is added last.
DictSet(items, key, value) ==
    IF \E j \in 1..Len(items) : items[j].key = key
    THEN [j \in 1..Len(items) |->
             IF items[j].key = key THEN [key |-> key, value |-> value]
             ELSE items[j]]
    ELSE Append(items, [key |-> key, value |-> value])

\* metrics_df.insert(0, "img_name", img_names_list)
InsertImgName(rows, names) ==
    [j \in 1..Len(rows) |->
        [img_name |-> names[j],
         original_image_path |-> rows[j].original_image_path,
         compressed_image_path |-> rows[j].compressed_image_path]]

\* What processing one (parameter, image) pair can do: complete, raise in
\* the compression or the saving (lines 84-89), raise in calculate_metrics
\* (line 95).
Outcomes == {"ok", "compress_raises", "metrics_raises"}

\* No call of compress_image_using_svd is being followed step by step.
SvdIdle ==
    /\ image = <<>>
    /\ explained_variance = 0
    /\ k_arg = <<>>
    /\ pc = "idle"
    /\ k_given = FALSE
    /\ k_components = <<>>
    /\ svd = <<>>
    /\ color = 0
    /\ reconstructed_channels = <<>>
    /\ metadata = [variance_explained |-> <<>>, num_components |-> <<>>]
    /\ sigma_top_ks = <<>>
    /\ scaled_imgs = <<>>
    /\ result = <<>>

SweepInit ==
    /\ SvdIdle
    /\ images \in SeqUpTo(SweepImages, MaxImages)
    /\ image_names = [i \in 1..Len(images) |-> NameAt(i)]
    /\ method \in Methods
    /\ param_set \in SeqUpTo(SweepParams, MaxParams)
    /\ num_images \in NumImagesArgs
    /\ sweep_pc = "call"
    /\ data = <<>>
    /\ param_at = 0
    /\ image_at = 0
    /\ img_names_list = <<>>
    /\ compressed_imgs = <<>>
    /\ metrics_df = <<>>
    /\ sweep_result = <<>>
    /\ attempted = <<>>
    /\ failed = <<>>

\* Lines 65-71: the default of num_images, the check of method, the empty
\* dict.
SweepEnter ==
    /\ sweep_pc = "call"
    /\ num_images' = IF num_images = <<>> \/ num_images[1] = 0
                      THEN <<Len(images)>> ELSE num_images
    /\ IF method \notin {"jp2", "svd"}
       THEN /\ sweep_pc' = "raised"
            /\ UNCHANGED <<data, param_at>>
       ELSE /\ data' = <<>>
            /\ param_at' = 1
            /\ sweep_pc' = "outer"
    /\ UNCHANGED <<images, image_names, method, param_set, image_at,
                   img_names_list, compressed_imgs, metrics_df, sweep_result,
                   attempted, failed>>
    /\ UNCHANGED vars

\* Lines 73-77: the next parameter value, with fresh accumulators.
NextParam ==
    /\ sweep_pc = "outer"
    /\ param_at <= Len(param_set)
    /\ img_names_list' = <<>>
    /\ compressed_imgs' = <<>>
    /\ metrics_df' = <<>>
    /\ image_at' = 1
    /\ sweep_pc' = "inner"
    /\ UNCHANGED <<images, image_names, method, param_set, num_images, data,
                   param_at, sweep_result, attempted, failed>>
    /\ UNCHANGED vars

\* ProcessPair going on to the next image when the pair raises.
ProcessPairSkipping(outcome, e, nanv) ==
    /\ sweep_pc = "inner"
    /\ image_at <= NumPairs
    /\ attempted' = Append(attempted, <<param_at, image_at>>)
    /\ IF outcome = "ok"
       THEN LET param == param_set[param_at]
                original_img == images[image_at]
                img_name == image_names[image_at]
                name == CompressedName(img_name, method, param)
                compressed_img ==
                    IF method = "svd"
                    THEN CompressImageUsingSvd(original_img, param, e, nanv)
                    ELSE CompressJp2(original_img, param)
            IN  /\ compressed_imgs' = Append(compressed_imgs, compressed_img)
                /\ img_names_list' = Append(img_names_list, name)
                /\ metrics_df' =
                       Append(metrics_df, CalculateMetrics(img_name, name))
                /\ UNCHANGED failed
       ELSE /\ failed' = Append(failed, <<param_at, image_at>>)
            /\ UNCHANGED <<compressed_imgs, img_names_list, metrics_df>>
    /\ image_at' = image_at + 1
    /\ UNCHANGED <<images, image_names, method, param_set, num_images, data,
                   param_at, sweep_pc, sweep_result>>
    /\ UNCHANGED vars

\* Lines 79-96: one iteration of the inner loop.  Nothing catches what the
\* compression, the saving or calculate_metrics raises.
ProcessPair(outcome, e, nanv) ==
    /\ sweep_pc = "inner"
    /\ image_at <= NumPairs
    /\ attempted' = Append(attempted, <<param_at, image_at>>)
    /\ LET param == param_set[param_at]
           original_img == images[image_at]
           img_name == image_names[image_at]
           name == CompressedName(img_name, method, param)
           compressed_img ==
               IF method = "svd"
               THEN CompressImageUsingSvd(original_img, param, e, nanv)
               ELSE CompressJp2(original_img, param)
       IN  CASE outcome = "ok" ->
                  /\ compressed_imgs' = Append(compressed_imgs, compressed_img)
                  /\ img_names_list' = Append(img_names_list, name)
                  /\ metrics_df' =
                         Append(metrics_df, CalculateMetrics(img_name, name))
                  /\ image_at' = image_at + 1
                  /\ UNCHANGED <<sweep_pc, failed>>
             [] outcome = "compress_raises" ->
                  /\ failed' = Append(failed, <<param_at, image_at>>)
                  /\ sweep_pc' = "raised"
                  /\ UNCHANGED <<compressed_imgs, img_names_list, metrics_df,
                                 image_at>>
             [] outcome = "metrics_raises" ->
                  /\ compressed_imgs' = Append(compressed_imgs, compressed_img)
                  /\ img_names_list' = Append(img_names_list, name)
                  /\ failed' = Append(failed, <<param_at, image_at>>)
                  /\ sweep_pc' = "raised"
                  /\ UNCHANGED <<metrics_df, image_at>>
    /\ UNCHANGED <<images, image_names, method, param_set, num_images, data,
                   param_at, sweep_result>>
    /\ UNCHANGED vars

\* Lines 98-103: the bucket of the parameter value, stored under it.
StoreBucket ==
    /\ sweep_pc = "inner"
    /\ image_at > NumPairs
    /\ data' = DictSet(data, param_set[param_at],
                       [compressed_images |-> compressed_imgs,
                        metrics |-> InsertImgName(metrics_df, img_names_list)])
    /\ param_at' = param_at + 1
    /\ sweep_pc' = "outer"
    /\ UNCHANGED <<images, image_names, method, param_set, num_images,
                   image_at, img_names_list, compressed_imgs, metrics_df,
                   sweep_result, attempted, failed>>
    /\ UNCHANGED vars

\* Line 105: return data.
SweepReturn ==
    /\ sweep_pc = "outer"
    /\ param_at > Len(param_set)
    /\ sweep_result' = <<data>>
    /\ sweep_pc' = "done"
    /\ UNCHANGED <<images, image_names, method, param_set, num_images, data,
                   param_at, image_at, img_names_list, compressed_imgs,
                   metrics_df, attempted, failed>>
    /\ UNCHANGED vars

SweepNext ==
    \/ SweepEnter
    \/ NextParam
    \/ \E outcome \in Outcomes, e \in DotErrors, nanv \in NaNCasts :
           ProcessPair(outcome, e, nanv)
    \/ StoreBucket
    \/ SweepReturn

SweepSpec == SweepInit /\ [][SweepNext]_<<vars, sweep_vars>>

-----------------------------------------------------------------------------
(* C12 *)

\* The items of the dict the call returned.
Delivered == sweep_result[1]

\* The parameter values are pairwise distinct.
DistinctParams ==
    \A j, l \in 1..Len(param_set) : param_set[j] = param_set[l] => j = l

RECURSIVE FirstOccurrences(_)
\* seq without the repetitions of a value after its first occurrence.
FirstOccurrences(seq) ==
    IF seq = <<>> THEN <<>>
    ELSE LET front == [j \in 1..(Len(seq) - 1) |-> seq[j]]
             last == seq[Len(seq)]
         IN  IF \E j \in 1..Len(front) : front[j] = last
             THEN FirstOccurrences(front)
             ELSE Append(FirstOccurrences(front), last)

\* bucket holds, for parameter value param, exactly n compressed images and
\* n metric records, those of the first n input images in input order.
BucketInInputOrder(bucket, param, n) ==
    /\ Len(bucket.compressed_images) = n
    /\ Len(bucket.metrics) = n
    /\ \A j \in 1..n :
           /\ bucket.metrics[j].original_image_path = image_names[j]
           /\ bucket.metrics[j].img_name
                  = CompressedName(image_names[j], method, param)
           /\ bucket.metrics[j].compressed_image_path
                  = bucket.metrics[j].img_name
           /\ IF method = "svd"
              THEN \E e \in DotErrors, nanv \in NaNCasts :
                       bucket.compressed_images[j]
                           = CompressImageUsingSvd(images[j], param, e, nanv)
              ELSE bucket.compressed_images[j] = CompressJp2(images[j], param)

\* C12 as stated: for any sequence of parameter values and a batch of N
\* images, the call returns one bucket per supplied parameter, as many
\* buckets as the sequence has entries and in the supplied order, each holding
\* N compressed images and N metric records in input image order.  (Read on
\* the calls that process the whole batch.)
C12_BucketPerSuppliedParameter ==
    (sweep_pc = "done" /\ NumPairs = Len(images)) =>
        /\ Len(Delivered) = Len(param_set)
        /\ \A j \in 1..Len(Delivered) :
               /\ Delivered[j].key = param_set[j]
               /\ BucketInInputOrder(Delivered[j].value, param_set[j],
                                     Len(images))

\* C12 amended: a call that returns, returns one bucket per distinct
\* parameter value, in the order of the values' first occurrences, each
\* holding as many compressed images and metric records as images were
\* processed, in input image order; so for pairwise distinct parameter values
\* it returns as many buckets as the sequence has entries, in the supplied
\* order.
C12_BucketPerDistinctParameter ==
    sweep_pc = "done" =>
        /\ Len(Delivered) = Len(FirstOccurrences(param_set))
        /\ \A j \in 1..Len(Delivered) :
               /\ Delivered[j].key = FirstOccurrences(param_set)[j]
               /\ BucketInInputOrder(Delivered[j].value, Delivered[j].key,
                                     NumPairs)
        /\ DistinctParams =>
               /\ Len(Delivered) = Len(param_set)
               /\ \A j \in 1..Len(param_set) :
                      Delivered[j].key = param_set[j]

\* A returned svd sweep of two distinct parameter values over two different
\* images: two buckets in the supplied order, two images in each.
C12_Witness ==
    /\ sweep_pc = "done"
    /\ method = "svd"
    /\ Len(images) = 2
    /\ images[1] # images[2]
    /\ param_set = <<Scale, Scale \div 2>>
    /\ Len(Delivered) = 2
    /\ Delivered[1].key = Scale
    /\ Len(Delivered[2].value.compressed_images) = 2
    /\ Delivered[1].value # Delivered[2].value

-----------------------------------------------------------------------------
(* C13 *)

\* C13: a (parameter, image) pair whose processing raises aborts the whole
\* call: the call has raised and returned nothing, buckets completed for
\* earlier parameter values included, and the failed pair is the only one
\* that failed and the last one processed.
C13_FailureAbortsSweep ==
    /\ sweep_pc = "raised" => sweep_result = <<>>
    /\ failed # <<>> =>
           /\ sweep_pc = "raised"
           /\ sweep_result = <<>>
           /\ Len(failed) = 1
           /\ attempted[Len(attempted)] = failed[1]

\* A call that raised at the first image of the second parameter value, with
\* the bucket of the first parameter value complete and not delivered.
C13_Witness ==
    /\ sweep_pc = "raised"
    /\ failed = << <<2, 1>> >>
    /\ Len(data) = 1
    /\ Len(data[1].value.compressed_images) = 2
    /\ sweep_result = <<>>

-----------------------------------------------------------------------------
(* C14 *)

\* C14 as stated: when no entry of the cumulative variance reaches the
\* threshold, the selected k is the full rank r = length(sigma).  (Read on
\* the channels of nonzero variance.)
C14_UnreachableKeepsAll ==
    ThresholdPolicy =>
        \A c \in Processed :
            (TotalVariance(c) # 0 /\ ~Reachable(c, explained_variance))
                => NumComponents(c) = Rank(c)

-----------------------------------------------------------------------------
(* C15 *)

\* C15: for a channel whose singular values are all zero, rank selection
\* under the threshold policy does not raise and selects k = 1, for the
\* threshold of the call and for every other threshold.
C15_ZeroVarianceSelectsOne ==
    ThresholdPolicy =>
        /\ pc # "raised"
        /\ \A c \in Processed :
               TotalVariance(c) = 0 =>
                   /\ NumComponents(c) = 1
                   /\ \A t \in Thresholds :
                          SelectK(CumulativeVariance(c), t, k_given,
                                  k_arg) = 1

\* A returned call under the threshold policy whose green channel is all
\* zero and retains k = 1 while the red channel retains 3.
C15_Witness ==
    /\ pc = "done"
    /\ ThresholdPolicy
    /\ TotalVariance(2) = 0
    /\ NumComponents(2) = 1
    /\ NumComponents(1) = 3

-----------------------------------------------------------------------------
(* C16 *)

\* num/den (non-negative) rounded to the nearest integer, halves up.
RoundNearest(q) == (2 * q.num + q.den) \div (2 * q.den)

\* C16 as stated: when max > min, every returned value is the scaled value
\* 255 * (x - min) / (max - min) rounded to the nearest integer.
C16_RoundsToNearest ==
    \A c \in 1..Len(scaled_imgs) :
        ~FlatReconstruction(c) =>
            \A a \in 1..Len(scaled_imgs[c]), b \in 1..Len(scaled_imgs[c][1]) :
                reconstructed_channels[c][a][b]
                    = RoundNearest(scaled_imgs[c][a][b])

-----------------------------------------------------------------------------
(* C17 *)

\* The sum of sigma_j^2 for j <= i, of channel c.
PrefixVariance(c, i) == SumSeq([j \in 1..i |-> Sigma(c)[j] * Sigma(c)[j]])

\* The rounding error i quotients and i - 1 additions can leave in the i-th
\* cumulative entry: 2 * i units of relative precision 2^(-FloatBits).
RoundingError(i) == (2 * i * Scale) \div (2 ^ FloatBits)

\* PrefixVariance(c, i) / TotalVariance(c) in units of 1/Scale, rounded
\* down, by long division in two steps of 12 and FloatBits bits.
ExactShare(c, i) ==
    LET high == PrefixVariance(c, i) * (2 ^ 12)
        low == (high % TotalVariance(c)) * (2 ^ FloatBits)
    IN  (high \div TotalVariance(c)) * (2 ^ FloatBits)
            + (low \div TotalVariance(c))

\* Entry i of cum, a cumulative variance of channel c, is within
\* RoundingError(i) of the exact share of the first i squared values.
NearExactShare(cum, c, i) ==
    Abs(cum[i] - ExactShare(c, i)) <= RoundingError(i)

\* The cumulative variance of channel c has the length of sigma and is
\* non-decreasing, and entry i is a number >= 0 near the exact share of the
\* first i values.
CumulativeShape(cum, c) ==
    /\ Len(cum) = Rank(c)
    /\ \A i \in 1..Rank(c) :
           cum[i] # NaN /\ cum[i] >= 0 /\ NearExactShare(cum, c, i)
    /\ \A i \in 1..(Rank(c) - 1) : cum[i] <= cum[i + 1]

\* C17 as stated: for a sigma of nonzero total variance the cumulative
\* variance has the length of sigma, entry i is the share of the first i
\* squared values, it is non-decreasing, every entry lies in [0, 1] and the
\* final entry equals 1.  (Read with entry i equal to the share up to the
\* rounding of the float operations.)
C17_FinalEntryIsOne ==
    pc # "call" =>
        \A c \in 1..3 :
            TotalVariance(c) # 0 =>
                LET cum == CumulativeVariance(c)
                IN  /\ CumulativeShape(cum, c)
                    /\ \A i \in 1..Rank(c) : cum[i] <= Scale
                    /\ cum[Rank(c)] = Scale

\* C17 amended: for a sigma of nonzero total variance the cumulative variance
\* has the length of sigma, is non-decreasing, and entry i is a number >= 0
\* within the rounding error of the share of the first i squared values; so
\* every entry is at most 1, and the final entry equals 1, up to that error.
C17_FinalEntryNearOne ==
    pc # "call" =>
        \A c \in 1..3 :
            TotalVariance(c) # 0 =>
                LET cum == CumulativeVariance(c)
                IN  /\ CumulativeShape(cum, c)
                    /\ \A i \in 1..Rank(c) :
                           cum[i] <= Scale + RoundingError(i)
                    /\ Abs(cum[Rank(c)] - Scale) <= RoundingError(Rank(c))

\* An image with a channel of three nonzero singular values whose cumulative
\* variance ends below 1 and another whose cumulative variance ends at 1.
C17_Witness ==
    /\ pc # "call"
    /\ \E c \in 1..3 :
           /\ Sigma(c)[Rank(c)] # 0
           /\ CumulativeVariance(c)[Rank(c)] < Scale
    /\ \E c \in 1..3 :
           /\ Sigma(c)[Rank(c)] # 0
           /\ CumulativeVariance(c)[1] < CumulativeVariance(c)[2]
           /\ CumulativeVariance(c)[Rank(c)] = Scale

-----------------------------------------------------------------------------
(* C18 *)

\* The k passed to _get_top_k_singular_values for channel c: the count
\* recorded for a completed iteration, and the k_components left by the
\* iteration that raised.
KPassed(c) == IF c \in Processed THEN NumComponents(c) ELSE k_components[1]

\* C18 as stated: _get_top_k_singular_values returns an array of the length
\* of sigma, sigma itself unchanged, whose first k entries are the first k
\* entries of sigma and whose remaining entries are zero; and if k is greater
\* than the length of sigma, every entry of the returned array is zero.
\* (Read on the counts k >= 0.)
C18_TopKZerosBeyondLength ==
    \A c \in 1..Len(sigma_top_ks) :
        KPassed(c) >= 0 =>
            /\ Len(sigma_top_ks[c]) = Rank(c)
            /\ Sigma(c) = SvdOf[image[c]].sigma
            /\ KPassed(c) <= Rank(c) =>
                   sigma_top_ks[c] =
                       [i \in 1..Rank(c) |->
                           IF i <= KPassed(c) THEN Sigma(c)[i] ELSE 0]
            /\ KPassed(c) > Rank(c) =>
                   sigma_top_ks[c] = [i \in 1..Rank(c) |-> 0]

=============================================================================
